---- MODULE Spec2Model ----
(***************************************************************************)
(* The getting-started example application                                 *)
(* (examples/getting-started/app/main.py): a Flask process that resolves   *)
(* its pod name, pod namespace and cluster id once at startup and then     *)
(* answers GET / with them as a JSON object.                               *)
(*                                                                         *)
(* Text is modelled as a sequence of one-character strings, so that what   *)
(* reading a file in text mode and serialising a JSON object do to it is   *)
(* computed and not assumed.                                               *)
(***************************************************************************)
EXTENDS Integers, Sequences, FiniteSets, TLC

\* Longest identity file the environment provides.
MaxLen == 2
\* Number of GET / requests the server is sent (they may all be in flight at once).
MaxRequests == 2

\* The characters identity files are made of: an ordinary one and the two
\* line-ending characters.
Chars == {"a", "\n", "\r"}

Contents == UNION {[1..n -> Chars] : n \in 0..MaxLen}

Unknown == <<"u", "n", "k", "n", "o", "w", "n">>

HelloWorld == <<"H", "e", "l", "l", "o", " ", "W", "o", "r", "l", "d", "!">>

\* Python's None (JSON null): no text is a sequence holding this element.
None == <<"None">>

K_message == <<"m", "e", "s", "s", "a", "g", "e">>
K_pod_name == <<"p", "o", "d", "_", "n", "a", "m", "e">>
K_pod_namespace == <<"p", "o", "d", "_", "n", "a", "m", "e", "s", "p", "a", "c", "e">>
K_cluster_id == <<"c", "l", "u", "s", "t", "e", "r", "_", "i", "d">>

(***************************************************************************)
(* The world outside the process.                                          *)
(***************************************************************************)
\* A file that open() cannot open (absent, or permission denied).
NoFile == [openable |-> FALSE, decodable |-> FALSE, data |-> <<>>]
\* A file that opens but whose bytes read() cannot decode as text.
Undecodable == [openable |-> TRUE, decodable |-> FALSE, data |-> <<>>]

TextFile(d) == [openable |-> TRUE, decodable |-> TRUE, data |-> d]

FileStates == {NoFile, Undecodable} \cup {TextFile(d) : d \in Contents}

Paths == {"/etc/podinfo/name", "/etc/podinfo/namespace"}

EnvUnset == [set |-> FALSE, value |-> <<>>]

EnvSet(v) == [set |-> TRUE, value |-> v]

\* MEMBER_CLUSTER_ID as the process may find it: unset, set but empty, set.
EnvStates == {EnvUnset, EnvSet(<<>>), EnvSet(<<"c", "7">>)}

\* What a file is rewritten with, and the variable set to, after startup.
Rewritten == TextFile(<<"b">>)
Reexported == EnvSet(<<"c", "8">>)

VARIABLES files, env, boot, pc, pod_name, pod_namespace, cluster_id, req

vars == <<files, env, boot, pc, pod_name, pod_namespace, cluster_id, req>>

(***************************************************************************)
(* Library functions the program calls, by what they do.                   *)
(***************************************************************************)
\* A mutated lookup: os.environ.get(key) without the default.
EnvGetNoDefault(e, default) == IF e.set THEN e.value ELSE None

\* os.environ.get(key, default)
EnvGet(e, default) == IF e.set THEN e.value ELSE default

RECURSIVE Translate(_)
\* Universal newlines of a text-mode read (open(..., "rt"), newline=None):
\* "\r\n" and a lone "\r" are returned as "\n".
Translate(d) ==
  IF d = <<>> THEN <<>>
  ELSE IF Head(d) = "\r"
       THEN IF Len(d) > 1 /\ d[2] = "\n"
            THEN <<"\n">> \o Translate(Tail(Tail(d)))
            ELSE <<"\n">> \o Translate(Tail(d))
       ELSE <<Head(d)>> \o Translate(Tail(d))

RECURSIVE RStrip(_)
RStrip(t) ==
  IF t # <<>> /\ t[Len(t)] \in {"\n", "\r", " "} THEN RStrip(SubSeq(t, 1, Len(t) - 1)) ELSE t

\* A mutated read: f.read().rstrip()
ReadTextStripped(f) == RStrip(Translate(f.data))

\* f.read() on a file opened with mode "rt": the whole content, as text.
ReadText(f) == Translate(f.data)

\* The with-statement "with open(path, 'rt') as f: x = f.read()" raises unless
\* the file opens and its content decodes.
Readable(f) == f.openable /\ f.decodable

\* Code point of each character a key is made of.
KeyCode ==
  LET lower == <<"a", "b", "c", "d", "e", "f", "g", "h", "i", "j", "k", "l", "m",
                 "n", "o", "p", "q", "r", "s", "t", "u", "v", "w", "x", "y", "z">>
  IN [c \in {lower[i] : i \in 1..Len(lower)} \cup {"_"} |->
        IF c = "_" THEN 95 ELSE 96 + (CHOOSE i \in 1..Len(lower) : lower[i] = c)]

RECURSIVE LexLess(_, _)
\* a < b for two strings, as Python compares them.
LexLess(a, b) ==
  IF b = <<>> THEN FALSE
  ELSE IF a = <<>> THEN TRUE
  ELSE IF Head(a) = Head(b) THEN LexLess(Tail(a), Tail(b))
  ELSE KeyCode[Head(a)] < KeyCode[Head(b)]

RECURSIVE Insert(_, _)
Insert(m, s) ==
  IF s = <<>> THEN <<m>>
  ELSE IF LexLess(m[1], Head(s)[1]) THEN <<m>> \o s
  ELSE <<Head(s)>> \o Insert(m, Tail(s))

RECURSIVE SortKeys(_)
\* The members of a dict in sorted key order (json.dumps(..., sort_keys=True)).
SortKeys(d) == IF d = <<>> THEN <<>> ELSE Insert(Head(d), SortKeys(Tail(d)))

\* A mutated jsonify: the members in the order the keyword arguments were given.
JsonifyUnsorted(kwargs) ==
  [status |-> 200, mimetype |-> "application/json", json |-> kwargs]

\* flask.jsonify(**kwargs): a 200 application/json response whose body is the
\* dict of the keyword arguments, dumped by the app's JSON provider, which
\* sorts the keys (sort_keys is on unless the app turns it off; this one does not).
Jsonify(kwargs) ==
  [status |-> 200, mimetype |-> "application/json", json |-> SortKeys(kwargs)]

NoResponse == [status |-> 0, mimetype |-> "", json |-> <<>>]

(***************************************************************************)
(* The process.                                                            *)
(***************************************************************************)
Requests == 1..MaxRequests

\* The process has been started and lines 1-7 have run: the module's globals
\* hold their defaults and cluster_id holds the environment lookup.
Init ==
  /\ files \in [Paths -> FileStates]
  /\ env \in EnvStates
  /\ boot = [files |-> files, env |-> env]
  /\ pc = "name"
  /\ pod_name = Unknown
  /\ pod_namespace = Unknown
  /\ cluster_id = EnvGet(env, Unknown)
  /\ req = [r \in Requests |-> [pc |-> "waiting", kwargs |-> <<>>, response |-> NoResponse]]

\* A mutated handler of the failed read: the except clause resets the field.
ReadNameClearsOnFailure ==
  /\ pc = "name"
  /\ IF Readable(files["/etc/podinfo/name"])
     THEN /\ pod_name' = ReadText(files["/etc/podinfo/name"])
          /\ pc' = "namespace"
     ELSE /\ pod_name' = <<>>
          /\ pc' = "run"
  /\ UNCHANGED <<files, env, boot, pod_namespace, cluster_id, req>>

\* A mutated startup: no except clause, the exception ends the process.
ReadNameUncaught ==
  /\ pc = "name"
  /\ IF Readable(files["/etc/podinfo/name"])
     THEN /\ pod_name' = ReadText(files["/etc/podinfo/name"])
          /\ pc' = "namespace"
     ELSE /\ pod_name' = pod_name
          /\ pc' = "crashed"
  /\ UNCHANGED <<files, env, boot, pod_namespace, cluster_id, req>>

\* A mutated startup: each file read in a try block of its own.
ReadNameOwnTry ==
  /\ pc = "name"
  /\ IF Readable(files["/etc/podinfo/name"])
     THEN pod_name' = ReadText(files["/etc/podinfo/name"])
     ELSE pod_name' = pod_name
  /\ pc' = "namespace"
  /\ UNCHANGED <<files, env, boot, pod_namespace, cluster_id, req>>

\* Lines 19-21 (and 24-25 when they raise): read the name file; an exception
\* leaves the try block, skipping the namespace file.
ReadName ==
  /\ pc = "name"
  /\ IF Readable(files["/etc/podinfo/name"])
     THEN /\ pod_name' = ReadText(files["/etc/podinfo/name"])
          /\ pc' = "namespace"
     ELSE /\ pod_name' = pod_name
          /\ pc' = "run"
  /\ UNCHANGED <<files, env, boot, pod_namespace, cluster_id, req>>

\* Lines 22-23 (and 24-25 when they raise): read the namespace file.
ReadNamespace ==
  /\ pc = "namespace"
  /\ IF Readable(files["/etc/podinfo/namespace"])
     THEN pod_namespace' = ReadText(files["/etc/podinfo/namespace"])
     ELSE pod_namespace' = pod_namespace
  /\ pc' = "run"
  /\ UNCHANGED <<files, env, boot, pod_name, cluster_id, req>>

\* Line 27: app.run(...) starts serving on 0.0.0.0:8080.
AppRun ==
  /\ pc = "run"
  /\ pc' = "listening"
  /\ UNCHANGED <<files, env, boot, pod_name, pod_namespace, cluster_id, req>>

\* A mutated server: it serves while the startup block is still running.
AcceptAnytime(r) ==
  /\ pc # "crashed"
  /\ req[r].pc = "waiting"
  /\ IF r = 1 THEN TRUE ELSE req[r - 1].pc # "waiting"
  /\ req' = [req EXCEPT ![r].pc = "pod_namespace",
                        ![r].kwargs = <<<<K_message, HelloWorld>>, <<K_pod_name, pod_name>>>>]
  /\ UNCHANGED <<files, env, boot, pc, pod_name, pod_namespace, cluster_id>>

\* Lines 9-13: a GET / arrives at the listening server, which calls
\* hello_world in a thread of its own; the handler evaluates the first two
\* keyword arguments, a constant and the global pod_name.
Accept(r) ==
  /\ pc = "listening"
  /\ req[r].pc = "waiting"
  /\ IF r = 1 THEN TRUE ELSE req[r - 1].pc # "waiting"
  /\ req' = [req EXCEPT ![r].pc = "pod_namespace",
                        ![r].kwargs = <<<<K_message, HelloWorld>>, <<K_pod_name, pod_name>>>>]
  /\ UNCHANGED <<files, env, boot, pc, pod_name, pod_namespace, cluster_id>>

\* A mutated handler: it reads the namespace file on every request.
LoadPodNamespaceFromFile(r) ==
  /\ req[r].pc = "pod_namespace"
  /\ LET f == files["/etc/podinfo/namespace"]
         v == IF Readable(f) THEN ReadText(f) ELSE Unknown
     IN req' = [req EXCEPT ![r].pc = "cluster_id",
                           ![r].kwargs = Append(@, <<K_pod_namespace, v>>)]
  /\ UNCHANGED <<files, env, boot, pc, pod_name, pod_namespace, cluster_id>>

\* Line 14: the handler loads the global pod_namespace.
LoadPodNamespace(r) ==
  /\ req[r].pc = "pod_namespace"
  /\ req' = [req EXCEPT ![r].pc = "cluster_id",
                        ![r].kwargs = Append(@, <<K_pod_namespace, pod_namespace>>)]
  /\ UNCHANGED <<files, env, boot, pc, pod_name, pod_namespace, cluster_id>>

\* A mutated handler: it looks the environment up again and stores the result.
ReplyRefreshing(r) ==
  /\ req[r].pc = "cluster_id"
  /\ cluster_id' = EnvGet(env, Unknown)
  /\ req' = [req EXCEPT ![r].pc = "done",
                        ![r].response = Jsonify(Append(req[r].kwargs, <<K_cluster_id, cluster_id'>>))]
  /\ UNCHANGED <<files, env, boot, pc, pod_name, pod_namespace>>

\* Lines 11-16: the handler loads the global cluster_id, calls jsonify and
\* returns the response.
Reply(r) ==
  /\ req[r].pc = "cluster_id"
  /\ req' = [req EXCEPT ![r].pc = "done",
                        ![r].response = Jsonify(Append(req[r].kwargs, <<K_cluster_id, cluster_id>>))]
  /\ UNCHANGED <<files, env, boot, pc, pod_name, pod_namespace, cluster_id>>

\* The world changes under the running server: the volume holding the two
\* identity files is rewritten.
RewriteFiles ==
  /\ pc = "listening"
  /\ files # [p \in Paths |-> Rewritten]
  /\ files' = [p \in Paths |-> Rewritten]
  /\ UNCHANGED <<env, boot, pc, pod_name, pod_namespace, cluster_id, req>>

\* The world changes under the running server: MEMBER_CLUSTER_ID is set to
\* another value.
ChangeEnv ==
  /\ pc = "listening"
  /\ env # Reexported
  /\ env' = Reexported
  /\ UNCHANGED <<files, boot, pc, pod_name, pod_namespace, cluster_id, req>>

Startup == ReadName \/ ReadNamespace \/ AppRun

Next ==
  \/ ReadName
  \/ ReadNamespace
  \/ AppRun
  \/ \E r \in Requests : Accept(r)
  \/ \E r \in Requests : LoadPodNamespace(r)
  \/ \E r \in Requests : Reply(r)
  \/ RewriteFiles
  \/ ChangeEnv

Spec == Init /\ [][Next]_vars

\* The main thread runs line after line: a startup step that can be taken is taken.
FairSpec == Spec /\ WF_vars(Startup)

(***************************************************************************)
(* What the claims speak of, stated without the operators of the model.    *)
(***************************************************************************)
NameFile == boot.files["/etc/podinfo/name"]
NamespaceFile == boot.files["/etc/podinfo/namespace"]

CanRead(f) == f.openable /\ f.decodable

\* The text of a file's content: every character in place, but a "\n" that
\* follows a "\r" dropped and every "\r" turned into "\n".
ExpectedText(data) ==
  LET keep == {i \in 1..Len(data) : ~(i > 1 /\ data[i] = "\n" /\ data[i - 1] = "\r")}
      nth(k) == CHOOSE i \in keep : Cardinality({j \in keep : j < i}) = k - 1
  IN [k \in 1..Cardinality(keep) |-> IF data[nth(k)] = "\r" THEN "\n" ELSE data[nth(k)]]

Done(r) == req[r].pc = "done"

\* The response to request r has a member k whose value is v.
Reports(r, k, v) ==
  \E i \in 1..Len(req[r].response.json) : req[r].response.json[i] = <<k, v>>

ExpectedClusterId == IF boot.env.set THEN boot.env.value ELSE Unknown

\* C1: after startup each field holds its own file's text when that file is
\* readable and "unknown" when it is not, whatever the other file is.
C1_IndependentAcquisition ==
  pc = "listening" =>
    /\ pod_name = IF CanRead(NameFile) THEN ExpectedText(NameFile.data) ELSE Unknown
    /\ pod_namespace = IF CanRead(NamespaceFile) THEN ExpectedText(NamespaceFile.data) ELSE Unknown

\* C2 as stated: with both files readable at startup, every response reports
\* the entire content of each file, character for character.
C2_FileOverrideVerbatim ==
  \A r \in Requests :
    Done(r) /\ CanRead(NameFile) /\ CanRead(NamespaceFile) =>
      /\ Reports(r, K_pod_name, NameFile.data)
      /\ Reports(r, K_pod_namespace, NamespaceFile.data)

\* C2 as amended: with both files readable at startup, every response reports
\* each file's entire content as text, nothing trimmed, a trailing newline
\* kept, and each "\r\n" or lone "\r" of the file reported as "\n".
C2_FileOverrideText ==
  \A r \in Requests :
    Done(r) /\ CanRead(NameFile) /\ CanRead(NamespaceFile) =>
      /\ Reports(r, K_pod_name, ExpectedText(NameFile.data))
      /\ Reports(r, K_pod_namespace, ExpectedText(NamespaceFile.data))

\* A response to a process started with a name file "a\n" and a namespace
\* file ending in a newline, after the files were rewritten.
C2_Witness ==
  \E r \in Requests :
    /\ Done(r)
    /\ NameFile = TextFile(<<"a", "\n">>)
    /\ CanRead(NamespaceFile) /\ NamespaceFile.data # <<>>
    /\ NamespaceFile.data[Len(NamespaceFile.data)] = "\n"
    /\ Reports(r, K_pod_name, <<"a", "\n">>)
    /\ files # boot.files

\* C3: if neither identity file exists at startup, every response reports
\* pod_name and pod_namespace as "unknown".
C3_DefaultFallback ==
  \A r \in Requests :
    Done(r) /\ ~NameFile.openable /\ ~NamespaceFile.openable =>
      /\ Reports(r, K_pod_name, Unknown)
      /\ Reports(r, K_pod_namespace, Unknown)

C3_Witness ==
  \E r \in Requests :
    Done(r) /\ NameFile = NoFile /\ NamespaceFile = NoFile /\ Reports(r, K_pod_name, Unknown)

\* C4: every response's cluster_id is the value MEMBER_CLUSTER_ID had at
\* process start when it was set, "unknown" when it was not, and never null.
C4_EnvironmentOverride ==
  /\ cluster_id # None
  /\ \A r \in Requests :
       Done(r) =>
         /\ Reports(r, K_cluster_id, ExpectedClusterId)
         /\ ~Reports(r, K_cluster_id, None)

\* A response of a process started without the variable, sent after the
\* variable was set.
C4_Witness ==
  \E r \in Requests :
    Done(r) /\ ~boot.env.set /\ env # boot.env /\ Reports(r, K_cluster_id, Unknown)

ResolvedName == IF CanRead(NameFile) THEN ExpectedText(NameFile.data) ELSE Unknown
ResolvedNamespace ==
  IF CanRead(NameFile) /\ CanRead(NamespaceFile)
  THEN ExpectedText(NamespaceFile.data) ELSE Unknown

\* C6: no request is handled before the startup block has finished, the
\* block never runs again once the server listens, and every response
\* carries the values resolved from the files and the environment as they
\* were at startup, whatever they have become since.
C6_StartupOrdering ==
  /\ [](\A r \in Requests :
          /\ req[r].pc # "waiting" => pc = "listening"
          /\ Done(r) =>
               /\ Reports(r, K_pod_name, ResolvedName)
               /\ Reports(r, K_pod_namespace, ResolvedNamespace)
               /\ Reports(r, K_cluster_id, ExpectedClusterId))
  /\ [][pc = "listening" => pc' = "listening"]_vars

\* A request answered, and another accepted, after the files and the
\* variable have changed.
C6_Witness ==
  /\ files # boot.files
  /\ env # boot.env
  /\ CanRead(NameFile) /\ CanRead(NamespaceFile) /\ boot.env.set
  /\ \E r \in Requests : Done(r)
  /\ \E r \in Requests : req[r].pc = "pod_namespace"

\* C7: any two responses of the process are identical.
C7_Idempotence ==
  \A r1, r2 \in Requests :
    Done(r1) /\ Done(r2) => req[r1].response = req[r2].response

\* Two responses, with the files and the variable changed meanwhile.
C7_Witness ==
  /\ \E r1, r2 \in Requests : r1 # r2 /\ Done(r1) /\ Done(r2)
  /\ files # boot.files
  /\ env # boot.env
  /\ CanRead(NameFile) /\ CanRead(NamespaceFile)

\* C8: whatever the files and the variable are, the startup block never ends
\* the process and the server eventually listens.
C8_StartupNeverAborts == [](pc # "crashed") /\ <>(pc = "listening")

\* The server listening after the name file could not be read.
C8_Witness == pc = "listening" /\ ~CanRead(NameFile) /\ ~boot.env.set

\* C9: once the server listens, no step of any request changes pod_name,
\* pod_namespace or cluster_id, and whatever the interleaving every response
\* reports the one snapshot.
C9_SnapshotImmutable ==
  [][pc = "listening" =>
       /\ UNCHANGED <<pod_name, pod_namespace, cluster_id>>
       /\ \A r \in Requests :
            req'[r].pc = "done" =>
              \E i, j, k \in 1..Len(req'[r].response.json) :
                /\ req'[r].response.json[i] = <<K_pod_name, pod_name>>
                /\ req'[r].response.json[j] = <<K_pod_namespace, pod_namespace>>
                /\ req'[r].response.json[k] = <<K_cluster_id, cluster_id>>]_vars

\* Two requests in flight at different points of the handler, a third
\* position being a response already sent, after the world changed.
C9_Witness ==
  /\ \E r1, r2 \in Requests : req[r1].pc = "cluster_id" /\ req[r2].pc = "pod_namespace"
  /\ env # boot.env
  /\ files # boot.files

\* C10: the namespace file is read only after the name file was read, so
\* after the startup block pod_namespace holds file content only if pod_name
\* does; and when the name file is read and the namespace file cannot be,
\* pod_name keeps the name file's text and pod_namespace stays "unknown".
C10_SingleTryBlock ==
  /\ pc = "namespace" => CanRead(NameFile) /\ pod_name = ExpectedText(NameFile.data)
  /\ pc \in {"run", "listening"} =>
       /\ pod_namespace # Unknown =>
            /\ pod_name = ExpectedText(NameFile.data)
            /\ CanRead(NameFile)
            /\ pod_namespace = ExpectedText(NamespaceFile.data)
       /\ CanRead(NameFile) /\ ~CanRead(NamespaceFile) =>
            /\ pod_name = ExpectedText(NameFile.data)
            /\ pod_namespace = Unknown
       /\ ~CanRead(NameFile) => pod_name = Unknown /\ pod_namespace = Unknown

\* Startup over with the name file read and the namespace file unreadable.
C10_Witness ==
  /\ pc = "listening"
  /\ CanRead(NameFile) /\ ~CanRead(NamespaceFile)
  /\ pod_name = ExpectedText(NameFile.data) /\ pod_name # Unknown
  /\ pod_namespace = Unknown

====
